---- MODULE Spec2Model ----
(***************************************************************************)
(* Model of src/app.py, the UptimeRobot dashboard script.                  *)
(*                                                                         *)
(* The script is re-executed top to bottom on every render cycle.  The     *)
(* only state that survives a cycle is the environment (API_KEY), the      *)
(* wall clock and the st.cache_data cache in front of                      *)
(* fetch_uptimerobot_data.  Python values are represented as follows:      *)
(*   str             a sequence of one-character strings (Str below), or   *)
(*                   a TLA+ string where the text is never taken apart     *)
(*   dict            a function whose DOMAIN is the set of present keys    *)
(*   list            a sequence                                            *)
(*   list or None    a record [isNone, items]                              *)
(***************************************************************************)
EXTENDS Integers, Sequences, FiniteSets, TLC

VARIABLES
    API_KEY,                \* os.environ.get("UPTIMEROBOT_API_KEY", "")
    pc,                     \* position of the script in the render cycle
    clock,                  \* wall clock, in seconds
    ticks,                  \* number of clock advances so far
    cache,                  \* st.cache_data store: api_key -> entry
    lastNet,                \* api_key -> the last call that reached requests.post
    request_sent,           \* this cycle issued requests.post
    screen,                 \* the st.* elements emitted by this cycle, in order
    monitors_list,          \* script local, line 85
    monitors_dict,          \* script local, line 86
    selected_monitor_name,  \* script local, line 95
    call,                   \* a single helper applied on its own: [fn, arg]
    result                  \* what that helper returned

scriptVars == <<API_KEY, pc, clock, ticks, cache, lastNet, request_sent, screen,
                monitors_list, monitors_dict, selected_monitor_name>>
vars == <<API_KEY, pc, clock, ticks, cache, lastNet, request_sent, screen,
          monitors_list, monitors_dict, selected_monitor_name, call, result>>

----------------------------------------------------------------------------
(* Bounds of the exploration *)

MaxTicks == 3        \* clock advances per behaviour
MaxLen == 4          \* length of the generated custom_uptime_ratio strings
MaxCode == 12        \* status codes range over -MaxCode .. MaxCode
MaxMonitors == 3     \* length of the generated monitor sequences
MaxLogs == 3         \* length of the generated log sequences

(* Program constant: @st.cache_data(ttl=300) *)
TTL == 300

----------------------------------------------------------------------------
(* Python values *)

PyNone == [isNone |-> TRUE, items |-> <<>>]
PyList(s) == [isNone |-> FALSE, items |-> s]

\* dict.get(key, default)
DictGet(d, k, default) == IF k \in DOMAIN d THEN d[k] ELSE default

RECURSIVE SplitFrom(_, _, _)
\* s.split(sep) continued: cur is the segment being read
SplitFrom(s, sep, cur) ==
    IF s = <<>> THEN <<cur>>
    ELSE IF Head(s) = sep THEN <<cur>> \o SplitFrom(Tail(s), sep, <<>>)
    ELSE SplitFrom(Tail(s), sep, Append(cur, Head(s)))

\* str.split(sep) for a one-character separator: one more segment than there
\* are separators, empty segments kept
Split(s, sep) == SplitFrom(s, sep, <<>>)

----------------------------------------------------------------------------
(* Helper dictionaries: lines 31-37, and the two fallbacks of lines 108, 145 *)

\* STATUS_MAP with the entry of 9 repeated under 8
STATUS_MAP_down_for_8 ==
    (0 :> <<"Paused", "icon_pause">>) @@ (1 :> <<"Not Checked Yet", "icon_grey_question">>)
    @@ (2 :> <<"Up", "icon_check">>) @@ (8 :> <<"Down", "icon_fire">>)
    @@ (9 :> <<"Down", "icon_fire">>)

STATUS_MAP ==
    (0 :> <<"Paused", "icon_pause">>) @@ (1 :> <<"Not Checked Yet", "icon_grey_question">>)
    @@ (2 :> <<"Up", "icon_check">>) @@ (8 :> <<"Seems Down", "icon_warning">>)
    @@ (9 :> <<"Down", "icon_fire">>)

\* STATUS_MAP.get(monitor['status'], ("Unknown", "?")), line 108
status_of_monitor(code) == DictGet(STATUS_MAP, code, <<"Unknown", "icon_question">>)

\* STATUS_MAP.get(log['type'], ("Event", "i")), line 145
status_of_log(code) == DictGet(STATUS_MAP, code, <<"Event", "icon_info">>)

----------------------------------------------------------------------------
(* Uptime ratios: lines 111-113 *)

NA == <<"N", "/", "A">>

\* the texts "98.5-99.2" and "98.5"
Ratio_98_5_99_2 == <<"9", "8", ".", "5", "-", "9", "9", ".", "2">>
Ratio_98_5 == <<"9", "8", ".", "5">>

\* uptime_ratios with the default the comment of line 110 names
uptime_ratios_default_na(monitor) ==
    Split(DictGet(monitor, "custom_uptime_ratio", NA), "-")

uptime_ratios(monitor) ==
    Split(DictGet(monitor, "custom_uptime_ratio", <<"0", "-", "0">>), "-")

uptime_7_day(monitor) ==
    LET r == uptime_ratios(monitor) IN IF Len(r) > 0 THEN r[1] ELSE NA

uptime_30_day(monitor) ==
    LET r == uptime_ratios(monitor) IN IF Len(r) > 1 THEN r[2] ELSE NA

----------------------------------------------------------------------------
(* process_monitor_data: lines 69-78 *)

\* bool(monitors) of a list or None
Truthy(monitors) == ~monitors.isNone /\ monitors.items # <<>>

\* DictComp keeping the first record of a name instead of the last
RECURSIVE DictCompFirstWins(_)
DictCompFirstWins(items) ==
    IF items = <<>> THEN <<>>
    ELSE (Head(items)["friendly_name"] :> Head(items)) @@ DictCompFirstWins(Tail(items))

RECURSIVE DictComp(_)
\* {m['friendly_name']: m for m in monitors}: entries are stored in input
\* order, a later one replacing an earlier one under the same key
DictComp(items) ==
    IF items = <<>> THEN <<>>
    ELSE LET n == Len(items)
             m == items[n]
         IN  (m["friendly_name"] :> m) @@ DictComp(SubSeq(items, 1, n - 1))

process_monitor_data(monitors) ==
    IF ~Truthy(monitors) THEN <<>> ELSE DictComp(monitors.items)

----------------------------------------------------------------------------
(* Timestamps: datetime.fromtimestamp(t).strftime('%Y-%m-%d %H:%M:%S'),    *)
(* line 148, for non-negative t in a process whose local time is UTC       *)

Digits == <<"0", "1", "2", "3", "4", "5", "6", "7", "8", "9">>
Pad2(n) == <<Digits[((n \div 10) % 10) + 1], Digits[(n % 10) + 1]>>
Pad4(n) == Pad2(n \div 100) \o Pad2(n % 100)

\* proleptic Gregorian date of a day number counted from 1970-01-01
CivilFromDays(days) ==
    LET z == days + 719468
        era == z \div 146097
        doe == z - era * 146097
        yoe == (doe - doe \div 1460 + doe \div 36524 - doe \div 146096) \div 365
        doy == doe - (365 * yoe + yoe \div 4 - yoe \div 100)
        mp == (5 * doy + 2) \div 153
        d == doy - (153 * mp + 2) \div 5 + 1
        m == IF mp < 10 THEN mp + 3 ELSE mp - 9
        y == yoe + era * 400 + (IF m <= 2 THEN 1 ELSE 0)
    IN  [year |-> y, month |-> m, day |-> d]

FormatTimestamp(t) ==
    LET date == CivilFromDays(t \div 86400)
        secs == t % 86400
    IN  Pad4(date.year) \o <<"-">> \o Pad2(date.month) \o <<"-">> \o Pad2(date.day)
        \o <<" ">> \o Pad2(secs \div 3600) \o <<":">> \o Pad2((secs % 3600) \div 60)
        \o <<":">> \o Pad2(secs % 60)

----------------------------------------------------------------------------
(* Event log rows: lines 143-150 *)

log_row(log) ==
    [Event |-> <<status_of_log(log["type"])[2], status_of_log(log["type"])[1]>>,
     Timestamp |-> FormatTimestamp(log["datetime"]),
     Details |-> DictGet(DictGet(log, "reason", <<>>), "detail", "N/A")]

\* processed_logs dropping the entries that carry no reason
processed_logs_skip_no_reason(log_data) ==
    LET kept == SelectSeq(log_data, LAMBDA log : "reason" \in DOMAIN log)
    IN  [i \in 1..Len(kept) |-> log_row(kept[i])]

\* the loop of lines 144-150: one append per entry of log_data, in order
processed_logs(log_data) == [i \in 1..Len(log_data) |-> log_row(log_data[i])]

(* Response-time frame: lines 125-131 *)
df_rt(rt_data) ==
    [i \in 1..Len(rt_data) |->
        [datetime |-> FormatTimestamp(rt_data[i]["datetime"]),
         response_time_ms |-> rt_data[i]["value"]]]

----------------------------------------------------------------------------
(* What the provider can answer to requests.post, line 54 *)

Keys == {"", "k1", "k2"}

mApi ==
    ("friendly_name" :> "api") @@ ("url" :> "https://api.example") @@ ("status" :> 2)
    @@ ("custom_uptime_ratio" :> Ratio_98_5_99_2)
    @@ ("response_times" :> << [datetime |-> 1700000000, value |-> 120],
                               [datetime |-> 1700000300, value |-> 95] >>)
    @@ ("logs" :> << ("type" :> 9) @@ ("datetime" :> 1700000000)
                        @@ ("reason" :> ("detail" :> "Connection timed out")),
                     ("type" :> 2) @@ ("datetime" :> 1700000060) >>)

mWeb ==
    ("friendly_name" :> "web") @@ ("url" :> "https://web.example") @@ ("status" :> 9)
    @@ ("response_times" :> <<>>)

mApiOld ==
    ("friendly_name" :> "api") @@ ("url" :> "https://old.example") @@ ("status" :> 0)
    @@ ("custom_uptime_ratio" :> <<>>)
    @@ ("logs" :> <<>>)

mBlank ==
    ("friendly_name" :> "") @@ ("url" :> "https://blank.example") @@ ("status" :> 7)
    @@ ("custom_uptime_ratio" :> Ratio_98_5)
    @@ ("response_times" :> <<>>)
    @@ ("logs" :> << ("type" :> 99) @@ ("datetime" :> 59) @@ ("reason" :> <<>>) >>)

ProviderMonitorLists ==
    {<<>>, <<mApi>>, <<mWeb>>, <<mWeb, mApi>>, <<mApiOld, mApi>>, <<mBlank>>,
     <<mBlank, mWeb>>}

\* response.json(): a JSON array, text that is not JSON, or a JSON object
JsonArray == [json |-> "array", data |-> <<>>]
InvalidJson == [json |-> "invalid", data |-> <<>>]
JsonObject(d) == [json |-> "object", data |-> d]

Bodies ==
    {JsonArray, InvalidJson,
     JsonObject(("stat" :> "ok")),
     JsonObject(("stat" :> "fail")),
     JsonObject(("stat" :> "fail") @@ ("error" :> "api_key is wrong")),
     JsonObject(("error" :> "no stat"))}
    \cup {JsonObject(("stat" :> "ok") @@ ("monitors" :> ms)) : ms \in ProviderMonitorLists}

Responses ==
    {[transport |-> "fail", http_status |-> 0, body |-> InvalidJson],
     [transport |-> "ok", http_status |-> 500, body |-> InvalidJson],
     [transport |-> "ok", http_status |-> 404, body |-> JsonObject(("stat" :> "fail"))]}
    \cup [transport : {"ok"}, http_status : {200}, body : Bodies]

Elem(w, a) == [widget |-> w, arg |-> a]

\* the body of fetch_uptimerobot_data, lines 44-67, for the answer resp.
\* json_error_is_request_exception: whether the installed requests raises its
\* own JSONDecodeError (a RequestException) from response.json(), or the
\* ValueError of the json module, which line 65 does not catch
fetch_uptimerobot_data(api_key, resp, json_error_is_request_exception) ==
    LET failed == [raised |-> FALSE, value |-> PyNone,
                   messages |-> <<Elem("error", "HTTP Request failed")>>]
        escaped == [raised |-> TRUE, value |-> PyNone, messages |-> <<>>]
        data == resp.body.data
    IN  IF resp.transport = "fail" THEN failed
        ELSE IF resp.http_status >= 400 THEN failed
        ELSE IF resp.body.json = "invalid"
             THEN (IF json_error_is_request_exception THEN failed ELSE escaped)
        ELSE IF resp.body.json = "array" THEN escaped
        ELSE IF DictGet(data, "stat", "None") = "ok"
             THEN [raised |-> FALSE, value |-> PyList(DictGet(data, "monitors", <<>>)),
                   messages |-> <<>>]
        ELSE [raised |-> FALSE, value |-> PyNone,
              messages |-> <<Elem("error", <<"API Error", DictGet(data, "error", "Unknown error")>>)>>]

----------------------------------------------------------------------------
(* The st.cache_data store of line 39 *)

NoEntry == [present |-> FALSE, value |-> PyNone, created |-> 0, messages |-> <<>>]
NoCall == [made |-> FALSE, at |-> 0, resp |-> <<>>, raised |-> FALSE, value |-> PyNone,
           messages |-> <<>>]

\* an entry is served until ttl seconds after it was stored; reading it does
\* not change it
Fresh(entry, now) == entry.present /\ now - entry.created < TTL

----------------------------------------------------------------------------
(* The render cycle *)

Resting == {"idle", "stopped", "crashed", "done"}

\* a helper applied on its own: not yet returned, returned v
Pending == [done |-> FALSE, value |-> <<>>]
Returned(v) == [done |-> TRUE, value |-> v]

Init ==
    /\ API_KEY \in Keys
    /\ pc = "idle"
    /\ clock = 0
    /\ ticks = 0
    /\ cache = [k \in Keys |-> NoEntry]
    /\ lastNet = [k \in Keys |-> NoCall]
    /\ request_sent = FALSE
    /\ screen = <<>>
    /\ monitors_list = PyNone
    /\ monitors_dict = <<>>
    /\ selected_monitor_name = ""
    /\ call = [fn |-> "none", arg |-> <<>>]
    /\ result = Pending

\* time passes between render cycles
Tick ==
    /\ pc \in Resting
    /\ ticks < MaxTicks
    /\ \E d \in {1, TTL - 1} : clock' = clock + d
    /\ ticks' = ticks + 1
    /\ UNCHANGED <<API_KEY, pc, cache, lastNet, request_sent, screen, monitors_list,
                   monitors_dict, selected_monitor_name, call, result>>

\* Configure without the st.stop() of line 24
Configure_no_stop ==
    /\ pc \in Resting
    /\ request_sent' = FALSE
    /\ monitors_list' = PyNone
    /\ monitors_dict' = <<>>
    /\ selected_monitor_name' = ""
    /\ IF API_KEY = ""
       THEN screen' = <<Elem("error", "API Key not found"), Elem("title", "Dashboard")>>
       ELSE screen' = <<Elem("title", "Dashboard")>>
    /\ pc' = "fetch"
    /\ UNCHANGED <<API_KEY, clock, ticks, cache, lastNet, call, result>>

\* a rerun of the script from its top to line 82: the key check of lines
\* 19-24, then the title
Configure ==
    /\ pc \in Resting
    /\ request_sent' = FALSE
    /\ monitors_list' = PyNone
    /\ monitors_dict' = <<>>
    /\ selected_monitor_name' = ""
    /\ IF API_KEY = ""
       THEN /\ screen' = <<Elem("error", "API Key not found")>>
            /\ pc' = "stopped"
       ELSE /\ screen' = <<Elem("title", "Dashboard")>>
            /\ pc' = "fetch"
    /\ UNCHANGED <<API_KEY, clock, ticks, cache, lastNet, call, result>>

\* line 85: fetch_uptimerobot_data(API_KEY) through the cache of line 39
Fetch ==
    /\ pc = "fetch"
    /\ IF Fresh(cache[API_KEY], clock)
       THEN /\ monitors_list' = cache[API_KEY].value
            /\ \E replayed \in BOOLEAN :
                  screen' = IF replayed THEN screen \o cache[API_KEY].messages ELSE screen
            /\ pc' = "process"
            /\ UNCHANGED <<cache, lastNet, request_sent>>
       ELSE \E resp \in Responses, json_error_is_request_exception \in BOOLEAN :
               LET o == fetch_uptimerobot_data(API_KEY, resp, json_error_is_request_exception)
               IN  /\ request_sent' = TRUE
                   /\ lastNet' = [lastNet EXCEPT ![API_KEY] =
                          [made |-> TRUE, at |-> clock, resp |-> resp, raised |-> o.raised,
                           value |-> o.value, messages |-> o.messages]]
                   /\ IF o.raised
                      THEN /\ screen' = Append(screen, Elem("exception", "uncaught"))
                           /\ pc' = "crashed"
                           /\ UNCHANGED <<cache, monitors_list>>
                      ELSE /\ cache' = [cache EXCEPT ![API_KEY] =
                                  [present |-> TRUE, value |-> o.value, created |-> clock,
                                   messages |-> o.messages]]
                           /\ screen' = screen \o o.messages
                           /\ monitors_list' = o.value
                           /\ pc' = "process"
    /\ UNCHANGED <<API_KEY, clock, ticks, monitors_dict, selected_monitor_name, call, result>>

\* Process without the check of lines 88-90
Process_no_stop ==
    /\ pc = "process"
    /\ monitors_dict' = process_monitor_data(monitors_list)
    /\ screen' = screen
    /\ pc' = "select"
    /\ UNCHANGED <<API_KEY, clock, ticks, cache, lastNet, request_sent, monitors_list,
                   selected_monitor_name, call, result>>

\* lines 86-90
Process ==
    /\ pc = "process"
    /\ monitors_dict' = process_monitor_data(monitors_list)
    /\ IF DOMAIN monitors_dict' = {}
       THEN /\ screen' = Append(screen, Elem("warning", "No monitor data found"))
            /\ pc' = "stopped"
       ELSE /\ screen' = screen
            /\ pc' = "select"
    /\ UNCHANGED <<API_KEY, clock, ticks, cache, lastNet, request_sent, monitors_list,
                   selected_monitor_name, call, result>>

\* the friendly names of the model in the order sorted() gives them
NameOrder == <<"", "api", "web">>

\* sorted(monitors_dict.keys()), line 94
monitor_names(d) == SelectSeq(NameOrder, LAMBDA n : n \in DOMAIN d)

\* lines 93-98: the select box offers the sorted names and returns the one
\* the user has chosen
Select ==
    /\ pc = "select"
    /\ \E i \in 1..Len(monitor_names(monitors_dict)) :
          selected_monitor_name' = monitor_names(monitors_dict)[i]
    /\ screen' = screen \o <<Elem("sidebar.title", "Navigation"),
                             Elem("sidebar.selectbox", monitor_names(monitors_dict))>>
    /\ pc' = "render"
    /\ UNCHANGED <<API_KEY, clock, ticks, cache, lastNet, request_sent, monitors_list,
                   monitors_dict, call, result>>

\* bool(x) of a list-valued key that may be missing: lines 124 and 139
HasItems(monitor, key) == key \in DOMAIN monitor /\ monitor[key] # <<>>

\* lines 104-118
kpi_section(monitor) ==
    <<Elem("header", monitor["friendly_name"]),
      Elem("markdown", monitor["url"]),
      Elem("metric", <<"Current Status", status_of_monitor(monitor["status"])[2],
                       status_of_monitor(monitor["status"])[1]>>),
      Elem("metric", <<"7-Day Uptime", uptime_7_day(monitor) \o <<"%">> >>),
      Elem("metric", <<"30-Day Uptime", uptime_30_day(monitor) \o <<"%">> >>),
      Elem("divider", "")>>

\* lines 123-135
response_time_section(monitor) ==
    <<Elem("subheader", "Recent Response Times (ms)"),
      IF HasItems(monitor, "response_times")
      THEN Elem("line_chart", df_rt(monitor["response_times"]))
      ELSE Elem("info", "No response time data available for this monitor.")>>

\* lines 138-155
event_log_section(monitor) ==
    <<Elem("subheader", "Recent Events"),
      IF HasItems(monitor, "logs")
      THEN Elem("dataframe", processed_logs(monitor["logs"]))
      ELSE Elem("info", "No logs available for this monitor.")>>

\* lines 101-159
Render ==
    /\ pc = "render"
    /\ IF selected_monitor_name # ""
       THEN LET monitor == monitors_dict[selected_monitor_name]
            IN  screen' = screen \o kpi_section(monitor) \o response_time_section(monitor)
                          \o event_log_section(monitor) \o <<Elem("json", monitor)>>
       ELSE screen' = screen
    /\ pc' = "done"
    /\ UNCHANGED <<API_KEY, clock, ticks, cache, lastNet, request_sent, monitors_list,
                   monitors_dict, selected_monitor_name, call, result>>

Next ==
    \/ Tick
    \/ Configure
    \/ Fetch
    \/ Process
    \/ Select
    \/ Render

Spec == Init /\ [][Next]_vars

----------------------------------------------------------------------------
(* Properties of the render cycle *)

HasWidget(w) == \E i \in 1..Len(screen) : screen[i].widget = w
HasInfo(text) == \E i \in 1..Len(screen) : screen[i].widget = "info" /\ screen[i].arg = text
CountWidget(w) == Cardinality({i \in 1..Len(screen) : screen[i].widget = w})

\* the call of line 85 is made in this step
FetchStep == pc = "fetch" /\ pc' # "fetch"

\* C1: two calls of fetch_uptimerobot_data with a non-empty key made less than
\* 300 seconds apart issue at most one network request, whatever the outcome of
\* the first, and the second returns what the first returned: a call made less
\* than 300 seconds after one that reached the network sends no request and
\* returns that call's value
C1_AsStated ==
    [][(/\ FetchStep
        /\ API_KEY # ""
        /\ lastNet[API_KEY].made
        /\ clock - lastNet[API_KEY].at < TTL)
       => (/\ ~request_sent'
           /\ pc' = "process"
           /\ monitors_list' = lastNet[API_KEY].value)]_vars

\* what the code does give for C1: the same, when the first call returned
CacheHitAfterReturn ==
    [][(/\ FetchStep
        /\ lastNet[API_KEY].made
        /\ ~lastNet[API_KEY].raised
        /\ clock - lastNet[API_KEY].at < TTL)
       => (/\ ~request_sent'
           /\ pc' = "process"
           /\ monitors_list' = lastNet[API_KEY].value)]_vars

\* C2: once 300 seconds have passed since the cached entry was created, hits in
\* between or not, the next call issues a new network request and replaces the
\* cached result with the new one
C2_AsStated ==
    [][(/\ FetchStep
        /\ cache[API_KEY].present
        /\ clock - cache[API_KEY].created >= TTL)
       => (/\ request_sent'
           /\ lastNet'[API_KEY].at = clock
           /\ cache'[API_KEY].present
           /\ cache'[API_KEY].created = clock
           /\ cache'[API_KEY].value = lastNet'[API_KEY].value
           /\ monitors_list' = cache'[API_KEY].value)]_vars

\* what the code does give for C2: the request is always sent, and the entry is
\* replaced when the call returns
RefetchAfterTtl ==
    [][(/\ FetchStep
        /\ cache[API_KEY].present
        /\ clock - cache[API_KEY].created >= TTL)
       => (/\ request_sent'
           /\ lastNet'[API_KEY].at = clock
           /\ pc' = "process" => /\ cache'[API_KEY].created = clock
                                 /\ cache'[API_KEY].value = lastNet'[API_KEY].value
                                 /\ monitors_list' = cache'[API_KEY].value)]_vars

\* C3: with an empty or missing API key the cycle reports the configuration
\* error and halts: fetch_uptimerobot_data is never called, no request is
\* issued, and indexing, selection and rendering are never reached
C3_EmptyKeyHalts ==
    API_KEY = "" =>
        /\ pc \in {"idle", "stopped"}
        /\ pc = "stopped" => screen = <<Elem("error", "API Key not found")>>
        /\ ~request_sent
        /\ \A k \in Keys : ~lastNet[k].made /\ ~cache[k].present
        /\ monitors_list = PyNone
        /\ DOMAIN monitors_dict = {}

C3_Witness == API_KEY = "" /\ pc = "stopped" /\ ticks > 0

\* an answer that is not a usable success
IsFailure(resp) ==
    \/ resp.transport = "fail"
    \/ resp.http_status \notin 200..299
    \/ resp.body.json # "object"
    \/ DictGet(resp.body.data, "stat", "None") # "ok"

\* C4: every failure path of fetch_uptimerobot_data (network failure, timeout,
\* non-2xx status, unusable body, stat other than "ok") ends with the no-data
\* result and a reported error message, and none leaves the function as an
\* exception that reaches the caller
C4_AsStated ==
    /\ pc # "crashed"
    /\ \A k \in Keys :
          (lastNet[k].made /\ IsFailure(lastNet[k].resp))
          => /\ ~lastNet[k].raised
             /\ lastNet[k].value = PyNone
             /\ \E i \in 1..Len(lastNet[k].messages) :
                   lastNet[k].messages[i].widget = "error"

PerMonitorWidgets ==
    {"sidebar.title", "sidebar.selectbox", "header", "markdown", "metric", "divider",
     "subheader", "line_chart", "dataframe", "info", "json"}

\* C5: whenever the fetch yields no monitors (an empty list, or the no-data
\* result of an error) process_monitor_data yields the empty mapping and the
\* cycle halts with a warning: selection and per-monitor rendering are not
\* reached
C5_NoMonitorsHalts ==
    (/\ API_KEY # ""
     /\ pc \in {"stopped", "select", "render", "done"}
     /\ ~Truthy(monitors_list))
    => /\ pc = "stopped"
       /\ DOMAIN monitors_dict = {}
       /\ screen[Len(screen)].widget = "warning"
       /\ \A i \in 1..Len(screen) : screen[i].widget \notin PerMonitorWidgets

C5_Witness ==
    /\ pc = "stopped"
    /\ API_KEY # ""
    /\ ~monitors_list.isNone /\ monitors_list.items = <<>>
    /\ HasWidget("warning")

RtInfo == "No response time data available for this monitor."
LogInfo == "No logs available for this monitor."

\* the sections of a finished cycle for the selected monitor
SectionsOfSelected ==
    LET monitor == monitors_dict[selected_monitor_name]
    IN  /\ CountWidget("metric") = 3
        /\ HasWidget("json")
        /\ IF HasItems(monitor, "response_times")
           THEN HasWidget("line_chart") ELSE HasInfo(RtInfo)
        /\ IF HasItems(monitor, "logs")
           THEN HasWidget("dataframe") ELSE HasInfo(LogInfo)

\* C10: when at least one monitor exists, a selected monitor whose
\* response_times or logs are empty or absent does not halt the cycle: the
\* affected section shows its no-data message and the KPIs, the other section
\* and the raw data are still rendered; the cycle halts only with zero monitors
C10_AsStated ==
    /\ pc = "done" => SectionsOfSelected
    /\ (pc = "stopped" /\ API_KEY # "") => DOMAIN monitors_dict = {}

\* what the code does give for C10: the same for a monitor whose friendly_name
\* is not the empty string
SectionsOfNamedMonitor ==
    /\ (pc = "done" /\ selected_monitor_name # "") => SectionsOfSelected
    /\ (pc = "stopped" /\ API_KEY # "") => DOMAIN monitors_dict = {}

----------------------------------------------------------------------------
(* The helpers applied on their own to generated inputs *)

SeqsUpTo(S, n) == UNION {[1..k -> S] : k \in 0..n}

RatioChars == {"0", "9", "-", "."}
RatioStrings == SeqsUpTo(RatioChars, MaxLen) \cup {Ratio_98_5_99_2, Ratio_98_5}

\* monitor records as far as lines 111-113 read them
UptimeInputs == {<<>>} \cup {("custom_uptime_ratio" :> s) : s \in RatioStrings}

StatusCodes == (0 - MaxCode)..MaxCode

\* monitor records as far as process_monitor_data reads them
IndexRecords == [friendly_name : {"", "api", "web"}, url : {"u1", "u2"}]
IndexInputs == {PyNone} \cup {PyList(ms) : ms \in SeqsUpTo(IndexRecords, MaxMonitors)}

Reasons == {<<>>, ("code" :> "98"), ("code" :> "98") @@ ("detail" :> "Connection timed out")}
LogEntries ==
    [type : {9, 99}, datetime : {59, 1700000000}]
    \cup {e @@ ("reason" :> r) : e \in [type : {9, 99}, datetime : {59, 1700000000}],
                                 r \in Reasons}
LogInputs == SeqsUpTo(LogEntries, MaxLogs)

ScriptOff ==
    /\ API_KEY = ""
    /\ pc = "off"
    /\ clock = 0
    /\ ticks = 0
    /\ cache = [k \in Keys |-> NoEntry]
    /\ lastNet = [k \in Keys |-> NoCall]
    /\ request_sent = FALSE
    /\ screen = <<>>
    /\ monitors_list = PyNone
    /\ monitors_dict = <<>>
    /\ selected_monitor_name = ""

InitPure ==
    /\ ScriptOff
    /\ call \in [fn : {"uptime"}, arg : UptimeInputs]
            \cup [fn : {"status_of_monitor", "status_of_log"}, arg : StatusCodes]
            \cup [fn : {"process_monitor_data"}, arg : IndexInputs]
            \cup [fn : {"processed_logs"}, arg : LogInputs]
    /\ result = Pending

apply_uptime ==
    /\ call.fn = "uptime" /\ ~result.done
    /\ result' = Returned(<<uptime_7_day(call.arg), uptime_30_day(call.arg)>>)
    /\ UNCHANGED <<scriptVars, call>>

apply_status_of_monitor ==
    /\ call.fn = "status_of_monitor" /\ ~result.done
    /\ result' = Returned(status_of_monitor(call.arg))
    /\ UNCHANGED <<scriptVars, call>>

apply_status_of_log ==
    /\ call.fn = "status_of_log" /\ ~result.done
    /\ result' = Returned(status_of_log(call.arg))
    /\ UNCHANGED <<scriptVars, call>>

apply_process_monitor_data ==
    /\ call.fn = "process_monitor_data" /\ ~result.done
    /\ result' = Returned(process_monitor_data(call.arg))
    /\ UNCHANGED <<scriptVars, call>>

apply_processed_logs ==
    /\ call.fn = "processed_logs" /\ ~result.done
    /\ result' = Returned(processed_logs(call.arg))
    /\ UNCHANGED <<scriptVars, call>>

NextPure ==
    \/ apply_uptime
    \/ apply_status_of_monitor
    \/ apply_status_of_log
    \/ apply_process_monitor_data
    \/ apply_processed_logs

SpecPure == InitPure /\ [][NextPure]_vars

----------------------------------------------------------------------------
(* Properties of the helpers *)

DashFree(x) == \A i \in 1..Len(x) : x[i] # "-"

\* seg is s up to its first dash, or all of s when it has none
IsFirstSegment(seg, s) ==
    /\ DashFree(seg)
    /\ Len(seg) <= Len(s)
    /\ SubSeq(s, 1, Len(seg)) = seg
    /\ Len(seg) = Len(s) \/ s[Len(seg) + 1] = "-"

UptimeDone == call.fn = "uptime" /\ result.done
RatioText == DictGet(call.arg, "custom_uptime_ratio", <<"0", "-", "0">>)

\* the examples of C6 other than the empty string, and the rule behind them
UptimeRule ==
    LET s == RatioText
        d7 == result.value[1]
        d30 == result.value[2]
    IN  /\ IsFirstSegment(d7, s)
        /\ IF Len(d7) = Len(s) THEN d30 = NA
           ELSE IsFirstSegment(d30, SubSeq(s, Len(d7) + 2, Len(s)))
        /\ "custom_uptime_ratio" \notin DOMAIN call.arg
              => result.value = << <<"0">>, <<"0">> >>
        /\ s = Ratio_98_5_99_2
              => result.value = << <<"9", "8", ".", "5">>, <<"9", "9", ".", "2">> >>
        /\ s = Ratio_98_5 => result.value = << <<"9", "8", ".", "5">>, NA >>

ExpectedLabel(code, fallback) ==
    CASE code = 0 -> "Paused"
      [] code = 1 -> "Not Checked Yet"
      [] code = 2 -> "Up"
      [] code = 8 -> "Seems Down"
      [] code = 9 -> "Down"
      [] OTHER -> fallback

\* C7: status translation is total over the integer codes: 0, 1, 2, 8, 9 give
\* Paused, Not Checked Yet, Up, Seems Down, Down, and every other code gives
\* "Unknown" for a monitor's status and "Event" for a log entry's type
C7_StatusTranslation ==
    /\ (call.fn = "status_of_monitor" /\ result.done)
          => result.value[1] = ExpectedLabel(call.arg, "Unknown")
    /\ (call.fn = "status_of_log" /\ result.done)
          => result.value[1] = ExpectedLabel(call.arg, "Event")

C7_Witness ==
    /\ call.fn = "status_of_log" /\ result.done
    /\ call.arg \notin {0, 1, 2, 8, 9}
    /\ result.value[1] = "Event"

IndexDone == call.fn = "process_monitor_data" /\ result.done

\* C8: process_monitor_data returns a mapping whose keys are exactly the
\* friendly_name values of the input, each mapped to the last record in input
\* order carrying that name; an empty or absent input gives the empty mapping
C8_IndexLastWins ==
    IndexDone =>
        LET items == call.arg.items
            d == result.value
        IN  /\ DOMAIN d = {items[i]["friendly_name"] : i \in 1..Len(items)}
            /\ \A i \in 1..Len(items) :
                  (\A j \in (i + 1)..Len(items) :
                      items[j]["friendly_name"] # items[i]["friendly_name"])
                  => d[items[i]["friendly_name"]] = items[i]
            /\ (call.arg.isNone \/ items = <<>>) => DOMAIN d = {}

C8_Witness ==
    /\ IndexDone
    /\ \E i, j \in 1..Len(call.arg.items) :
          /\ i < j
          /\ call.arg.items[i]["friendly_name"] = call.arg.items[j]["friendly_name"]
          /\ call.arg.items[i] # call.arg.items[j]

LogsDone == call.fn = "processed_logs" /\ result.done

HasDetail(log) == "reason" \in DOMAIN log /\ "detail" \in DOMAIN log["reason"]

\* C9: for a non-empty log sequence the table has one row per entry, in input
\* order, and a row's details are the entry's reason.detail when present and
\* "N/A" when the reason or its detail is absent
C9_LogTable ==
    (LogsDone /\ call.arg # <<>>) =>
        LET logs == call.arg
            rows == result.value
        IN  /\ Len(rows) = Len(logs)
            /\ \A i \in 1..Len(logs) :
                  /\ rows[i].Event[2] = ExpectedLabel(logs[i]["type"], "Event")
                  /\ rows[i].Timestamp = FormatTimestamp(logs[i]["datetime"])
                  /\ rows[i].Details = IF HasDetail(logs[i])
                                       THEN logs[i]["reason"]["detail"] ELSE "N/A"

C9_Witness ==
    /\ LogsDone
    /\ Len(call.arg) = 3
    /\ "reason" \notin DOMAIN call.arg[1]
    /\ HasDetail(call.arg[2])
    /\ "reason" \in DOMAIN call.arg[3] /\ ~HasDetail(call.arg[3])
    /\ call.arg[1]["datetime"] # call.arg[2]["datetime"]
    /\ result.value[2].Details = "Connection timed out"
    /\ result.value[2].Timestamp =
          <<"2", "0", "2", "3", "-", "1", "1", "-", "1", "4", " ",
            "2", "2", ":", "1", "3", ":", "2", "0">>

====
